---- MODULE Spec2Model ----
(***************************************************************************)
(* A model of ItunesScraper.get_subtitles (isubrip/scrapers/               *)
(* itunes_scraper.py): the generator that selects the subtitle streams of  *)
(* a master playlist with attribute filters and, for each matched stream,  *)
(* fetches its media playlist, downloads and merges the segments, polishes *)
(* the track, renders it and yields either a SubtitlesData or a            *)
(* SubtitlesDownloadError.                                                 *)
(*                                                                         *)
(* The generator's position is pc ("start": created, not yet resumed;      *)
(* "loop": inside the for loop; "done": exhausted; "raised": an exception  *)
(* left the generator) together with stage, the pipeline stage of the      *)
(* stream the loop is at.  Everything the network and the collaborators    *)
(* decide (what a fetch returns, whether polish or to_srt raise) is chosen *)
(* with \E when the code asks for it.                                      *)
(***************************************************************************)
EXTENDS Naturals, Sequences, FiniteSets

(* Bounds of the model. *)
MaxStreams == 2
MaxSegs == 2
MaxCue == 3

(***************************************************************************)
(* Python values.  None is the string "None" where the other values are    *)
(* strings; a stream name is a sequence of characters, and the absent      *)
(* name (m3u8 leaves Media.name None when NAME is missing) is NoName.      *)
(***************************************************************************)
None == "None"
NoName == <<None>>

(* M3U8Attribute values used as filter keys. *)
TYPE == "type"
GROUP_ID == "group-id"
LANGUAGE == "language"

(***************************************************************************)
(* str.replace(old, "") and str.strip() on character sequences.            *)
(***************************************************************************)
RECURSIVE Remove(_, _)
Remove(s, old) ==
    IF Len(s) < Len(old) THEN s
    ELSE IF SubSeq(s, 1, Len(old)) = old
         THEN Remove(SubSeq(s, Len(old) + 1, Len(s)), old)
         ELSE <<Head(s)>> \o Remove(Tail(s), old)

RECURSIVE LStrip(_)
LStrip(s) == IF s # <<>> /\ Head(s) = " " THEN LStrip(Tail(s)) ELSE s

RECURSIVE RStrip(_)
RStrip(s) ==
    IF s # <<>> /\ s[Len(s)] = " " THEN RStrip(SubSeq(s, 1, Len(s) - 1)) ELSE s

Strip(s) == RStrip(LStrip(s))

ForcedSuffix == <<" ", "(", "f", "o", "r", "c", "e", "d", ")">>

(* LanguageName without the strip(). *)
LanguageNameUnstripped(name) == Remove(name, ForcedSuffix)

(* matched_media.name.replace(' (forced)', '').strip() *)
LanguageName(name) == Strip(Remove(name, ForcedSuffix))

(***************************************************************************)
(* The subtitle-bearing entries a master playlist is built from.           *)
(***************************************************************************)
Media(type, group, lang, name, forced, chars, uri) ==
    [type |-> type, group_id |-> group, language |-> lang, name |-> name,
     forced |-> forced, characteristics |-> chars, absolute_uri |-> uri]

Catalogue ==
    << Media("SUBTITLES", "subtitles_ak", "en", <<"E", "n">>, "NO", None, "u1"),
       Media("SUBTITLES", "subtitles_ak", "fr",
             <<"F", "r">> \o ForcedSuffix \o <<" ">>, "YES", None, "u2"),
       Media("SUBTITLES", "subtitles_vod-ak-amt.tv.apple.com", None,
             <<" ", "C", "c">>, "NO", "public.accessibility", "u3"),
       Media("AUDIO", "audio_ak", "en", <<"E", "n">>, "NO", None, "u4"),
       Media("SUBTITLES", "subtitles_ak", "en", NoName, "NO", None, "u5") >>

Injective(f) == \A i, j \in DOMAIN f : f[i] = f[j] => i = j

(* The master playlists: up to MaxStreams different entries, in any order. *)
Playlists ==
    { [i \in DOMAIN f |-> Catalogue[f[i]]] :
        f \in { g \in UNION { [1..n -> DOMAIN Catalogue] : n \in 0..MaxStreams } :
                  Injective(g) } }

(* What load_m3u8 returns: None, or the parsed master playlist. *)
NotLoaded == [loaded |-> FALSE, media |-> <<>>]
Loaded(p) == [loaded |-> TRUE, media |-> p]

(* The language_filter argument: None, or a list of language codes. *)
NoLanguageFilter == [given |-> FALSE, langs |-> {}]
Languages(ls) == [given |-> TRUE, langs |-> ls]
LanguageFilterArgs ==
    {NoLanguageFilter, Languages({}), Languages({"en"}), Languages({"en", "fr"})}

(***************************************************************************)
(* Filter rules: a function from attribute keys to allowed-value sets.     *)
(* The function with the empty domain stands for None and for {}.          *)
(***************************************************************************)
NoRules == [k \in {} |-> {}]

(* HLSScraper._subtitles_filters *)
HLSSubtitlesFilters == [k \in {TYPE} |-> {"SUBTITLES"}]

(* merge_dict_values(a, b): the allowed values of both sides, per key. *)
merge_dict_values(a, b) ==
    [k \in DOMAIN a \cup DOMAIN b |->
        (IF k \in DOMAIN a THEN a[k] ELSE {}) \cup
        (IF k \in DOMAIN b THEN b[k] ELSE {})]

(* ItunesScraper._subtitles_filters: {GROUP_ID: [...], **HLSScraper's}. *)
ItunesSubtitlesFilters ==
    [k \in {GROUP_ID} \cup DOMAIN HLSSubtitlesFilters |->
        IF k \in DOMAIN HLSSubtitlesFilters
        THEN HLSSubtitlesFilters[k]
        ELSE {"subtitles_ak", "subtitles_vod-ak-amt.tv.apple.com"}]

(* The value of a playlist entry's attribute. *)
Attr(m, key) ==
    CASE key = TYPE -> m.type
      [] key = GROUP_ID -> m.group_id
      [] key = LANGUAGE -> m.language

(* A stream passes the filters iff every key's allowed set has its value. *)
Matches(m, filters) ==
    \A k \in DOMAIN filters : Attr(m, k) # None /\ Attr(m, k) \in filters[k]

RECURSIVE SelectSeq2(_, _)
SelectSeq2(s, filters) ==
    IF s = <<>> THEN <<>>
    ELSE (IF Matches(Head(s), filters) THEN <<Head(s)>> ELSE <<>>)
         \o SelectSeq2(Tail(s), filters)

(* get_media_playlists: the entries that pass the filters, in order. *)
get_media_playlists(main_playlist, filters) == SelectSeq2(main_playlist.media, filters)

(* LanguageFilters testing `is not None` instead of truthiness. *)
LanguageFiltersIfGiven(language_filter) ==
    IF language_filter.given
    THEN [k \in {LANGUAGE} |-> language_filter.langs]
    ELSE NoRules

(* Line 92: {LANGUAGE: language_filter} if language_filter else None. *)
LanguageFilters(language_filter) ==
    IF language_filter.given /\ language_filter.langs # {}
    THEN [k \in {LANGUAGE} |-> language_filter.langs]
    ELSE NoRules

(* PlaylistFilters with dict.update semantics: the override replaces. *)
PlaylistFiltersOverride(base, lang_filters) ==
    [k \in DOMAIN base \cup DOMAIN lang_filters |->
        IF k \in DOMAIN lang_filters THEN lang_filters[k] ELSE base[k]]

(* PlaylistFilters that leaves the language filters out. *)
PlaylistFiltersBaseOnly(base, lang_filters) == base

(* Lines 98-100: the merge if language_filters is truthy, else the base. *)
PlaylistFilters(base, lang_filters) ==
    IF DOMAIN lang_filters # {}
    THEN merge_dict_values(base, lang_filters)
    ELSE base

(* detect_subtitles_type: forced, closed captions (CC), or None. *)
detect_subtitles_type(m) ==
    IF m.forced = "YES" THEN "FORCED"
    ELSE IF m.characteristics = "public.accessibility" THEN "CC"
    ELSE None

(***************************************************************************)
(* The media playlist of a stream: its segments in declared order.  A      *)
(* segment is "ok", cannot be retrieved ("unfetchable"), or its payload is *)
(* not WebVTT ("garbled").                                                 *)
(***************************************************************************)
SegmentStates == {"ok", "unfetchable", "garbled"}
SegmentLists == UNION { [1..n -> SegmentStates] : n \in 0..MaxSegs }

(***************************************************************************)
(* What the segments of a media playlist carry: segment i holds the cues   *)
(* cues_of[i], a run of consecutive cues.  A cue is identified by its      *)
(* number in the track (its timing and text).  Encoders repeat the last    *)
(* cues of a segment at the start of the next one, so the runs of adjacent *)
(* segments may overlap; they never go back in time.                       *)
(***************************************************************************)
Run(a, b) == [k \in 1..(b - a + 1) |-> a + k - 1]

Tracks ==
    { t \in [1..MaxSegs -> { Run(a, b) : a \in 1..MaxCue, b \in 1..MaxCue }] :
        /\ \A i \in 1..MaxSegs : t[i] # <<>>
        /\ \A i \in 1..(MaxSegs - 1) :
              /\ t[i + 1][1] >= t[i][1]
              /\ t[i + 1][1] <= t[i][Len(t[i])] + 1
              /\ t[i + 1][Len(t[i + 1])] >= t[i][Len(t[i])] }

(* The track whose segment i holds the one cue i. *)
OneCuePerSegment == [i \in 1..MaxSegs |-> <<i>>]

(* The payload of segment i of a media playlist. *)
Payload(segs, cues_of, i) == [index |-> i, text |-> segs[i], cues |-> cues_of[i]]

(* _download_segments: the payloads in playlist order, or an exception. *)
_download_segments(segs, cues_of) ==
    IF segs = <<>>
    THEN [exc |-> "PlaylistLoadError", data |-> <<>>]
    ELSE IF \E i \in DOMAIN segs : segs[i] = "unfetchable"
    THEN [exc |-> "SegmentFetchError", data |-> <<>>]
    ELSE [exc |-> None,
          data |-> [i \in DOMAIN segs |-> Payload(segs, cues_of, i)]]

(* subtitles_class(data=..., language_code=...) parses iff data is WebVTT. *)
Parses(data) == data.text = "ok"

NoSubtitles ==
    [language_code |-> None, head |-> <<>>, cues |-> <<>>, polished |-> FALSE]

WebVTTSubtitles(data, language_code) ==
    [language_code |-> language_code, head |-> <<data.index>>,
     cues |-> data.cues, polished |-> FALSE]

remove_head_blocks(doc) == [doc EXCEPT !.head = <<>>]

(* How many leading cues of b repeat the trailing cues of a. *)
BoundaryOverlap(a, b) ==
    LET ks == { k \in 0..Len(b) :
                  /\ k <= Len(a)
                  /\ SubSeq(a, Len(a) - k + 1, Len(a)) = SubSeq(b, 1, k) }
    IN CHOOSE k \in ks : \A j \in ks : j <= k

(* append_subtitles that appends every cue of the other document. *)
append_subtitles_all(doc, other) ==
    [doc EXCEPT !.head = doc.head \o other.head, !.cues = doc.cues \o other.cues]

(* append_subtitles: the other document's header blocks and cues are       *)
(* appended, without the leading cues that repeat the trailing ones.       *)
append_subtitles(doc, other) ==
    [doc EXCEPT !.head = doc.head \o other.head,
                !.cues = doc.cues \o
                    SubSeq(other.cues,
                           BoundaryOverlap(doc.cues, other.cues) + 1,
                           Len(other.cues))]

(* AppendSegments without the remove_head_blocks() of line 119. *)
RECURSIVE AppendSegmentsKeepingHeads(_, _, _, _)
AppendSegmentsKeepingHeads(doc, data, i, upto) ==
    IF i > upto THEN doc
    ELSE AppendSegmentsKeepingHeads(
            append_subtitles(doc, WebVTTSubtitles(data[i], doc.language_code)),
            data, i + 1, upto)

(* Lines 117-120 for the payloads data[i..upto], in order. *)
RECURSIVE AppendSegments(_, _, _, _)
AppendSegments(doc, data, i, upto) ==
    IF i > upto THEN doc
    ELSE AppendSegments(
            append_subtitles(doc,
                remove_head_blocks(WebVTTSubtitles(data[i], doc.language_code))),
            data, i + 1, upto)

(* FirstUnparsed when a payload that does not parse raises nothing. *)
FirstUnparsedIgnored(data) == Len(data) + 1

(* The first payload that does not parse, Len(data) + 1 if all parse. *)
FirstUnparsed(data) ==
    IF \A i \in DOMAIN data : Parses(data[i]) THEN Len(data) + 1
    ELSE CHOOSE i \in DOMAIN data :
            ~Parses(data[i]) /\ \A j \in 1..(i - 1) : Parses(data[j])

(* The cues without those that repeat an earlier cue. *)
RECURSIVE FirstOccurrences(_)
FirstOccurrences(cues) ==
    IF cues = <<>> THEN <<>>
    ELSE LET init == FirstOccurrences(SubSeq(cues, 1, Len(cues) - 1))
             last == cues[Len(cues)]
         IN IF \E i \in DOMAIN init : init[i] = last
            THEN init ELSE Append(init, last)

(* polish(fix_rtl, remove_duplicates); the text direction is not modelled. *)
polish(doc, remove_duplicates) ==
    [doc EXCEPT !.polished = TRUE,
                !.cues = IF remove_duplicates THEN FirstOccurrences(doc.cues)
                         ELSE doc.cues]

(* to_srt(): a SubRip document has no header block. *)
to_srt(doc) == [syntax |-> "SubRip", head |-> <<>>, cues |-> doc.cues,
                polished |-> doc.polished]

(* dump() of the WebVTT document / of the converted document. *)
dump(doc) == [syntax |-> "WebVTT", head |-> doc.head, cues |-> doc.cues,
              polished |-> doc.polished]

dump_srt(srt) == srt

SubtitlesData(code, name, format, content, special) ==
    [kind |-> "SubtitlesData", language_code |-> code, language_name |-> name,
     subtitles_format |-> format, content |-> content,
     content_encoding |-> "utf-8", special_type |-> special]

SubtitlesDownloadError(code, name, special, exc) ==
    [kind |-> "SubtitlesDownloadError", language_code |-> code,
     language_name |-> name, special_type |-> special, original_exc |-> exc]

VARIABLES
    main_playlist_m3u8,   \* what load_m3u8(main_playlist) returns
    language_filter,      \* argument
    subrip_conversion,    \* argument
    subtitles_filters,    \* self._subtitles_filters
    subtitles_remove_duplicates,  \* self.subtitles_remove_duplicates, line 124
    track,                \* the cues each segment of a media playlist carries
    environment,          \* by URI: what the collaborators do for that stream
    language_filters,     \* local, line 92
    playlist_filters,     \* local, lines 98-100
    matched_media_items,  \* local, lines 102-103
    idx,                  \* how many matched items the for loop has taken
    pc,                   \* position of the generator
    stage,                \* pipeline stage of the stream the loop is at
    language_name,        \* local, lines 106 and 127
    language_code,        \* local, line 107
    special_type,         \* local, line 108
    m3u8_data,            \* local, line 111: the URI whose response it holds
    segments,             \* matched_media_playlist.segments, line 112
    subtitles_segments,   \* local, line 114
    subtitles,            \* local, lines 115-125
    slots,                \* _download_segments: the payloads received, by index
    completed,            \* _download_segments: the order the fetches completed in
    e,                    \* the exception last raised
    outputs               \* what the generator has yielded, in order

(* ItunesScraper.get_data, lines 43-88. *)
VARIABLES
    url,                  \* argument of get_data
    site,                 \* what iTunes answers to a request that follows nothing
    get_data_pc,          \* position in get_data
    regex_match,          \* local, line 59: group(1) of the match, or None
    request,              \* the call of self._session.get, line 62
    response,             \* local, line 62
    redirect_location,    \* local, line 75
    raised,               \* the exception that left get_data
    appletv_calls         \* the URLs self._appletv_scraper.get_data was called with

lookup == <<url, site, get_data_pc, regex_match, request, response,
            redirect_location, raised, appletv_calls>>

args == <<main_playlist_m3u8, language_filter, subrip_conversion, subtitles_filters,
          subtitles_remove_duplicates, track, environment>>
download == <<slots, completed>>
selection == <<language_filters, playlist_filters, matched_media_items>>
metadata == <<language_name, language_code, special_type>>
locals == <<m3u8_data, segments, subtitles_segments, subtitles, download>>
vars == <<args, lookup, selection, idx, pc, stage, metadata, locals, e, outputs>>

(* An HTTP response: its status code and its Location header (None when    *)
(* the header is absent); followed tells that the session followed a       *)
(* redirect to get it.                                                     *)
Response(status_code, location, followed) ==
    [status_code |-> status_code, Location |-> location, followed |-> followed]
NoResponse == Response(0, None, FALSE)
NoRequest == [url |-> None, allow_redirects |-> FALSE]
NoException == [type |-> None, message |-> None, cause |-> None]
Exception(type, message, cause) == [type |-> type, message |-> message, cause |-> cause]

(* get_data not called. *)
NoLookup ==
    /\ url = None
    /\ site = NoResponse
    /\ get_data_pc = "idle"
    /\ regex_match = None
    /\ request = NoRequest
    /\ response = NoResponse
    /\ redirect_location = None
    /\ raised = NoException
    /\ appletv_calls = <<>>

(* The environment that fixes nothing: no URI is in its domain. *)
Anything == [u \in {} |-> None]

Fresh ==
    /\ language_filters = NoRules
    /\ playlist_filters = NoRules
    /\ matched_media_items = <<>>
    /\ idx = 0
    /\ pc = "start"
    /\ stage = "Pending"
    /\ language_name = NoName
    /\ language_code = None
    /\ special_type = None
    /\ m3u8_data = None
    /\ segments = <<>>
    /\ subtitles_segments = <<>>
    /\ subtitles = NoSubtitles
    /\ slots = <<>>
    /\ completed = <<>>
    /\ e = None
    /\ outputs = <<>>

Init ==
    /\ main_playlist_m3u8 \in {NotLoaded} \cup {Loaded(p) : p \in Playlists}
    /\ language_filter \in LanguageFilterArgs
    /\ subrip_conversion \in BOOLEAN
    /\ subtitles_filters = ItunesSubtitlesFilters
    /\ subtitles_remove_duplicates = TRUE
    /\ track = OneCuePerSegment
    /\ environment = Anything
    /\ Fresh
    /\ NoLookup

(***************************************************************************)
(* The environment of a stream, by the URI of its media playlist: whether  *)
(* the media playlist can be fetched, the segments it lists, and whether   *)
(* polish or to_srt raise on its track.  For a URI outside the domain of   *)
(* environment any of these may happen.                                    *)
(***************************************************************************)
Behaviours ==
    { r \in [reachable : BOOLEAN, segs : SegmentLists,
              fault : {"none", "polish", "to_srt"}] :
        /\ ~r.reachable => r.segs = <<>>
        /\ r.fault # "none" =>
              r.reachable /\ r.segs # <<>> /\ \A i \in DOMAIN r.segs : r.segs[i] = "ok" }
CurrentUri == matched_media_items[idx].absolute_uri
Open == CurrentUri \notin DOMAIN environment
MayRefuse == IF Open THEN TRUE ELSE ~environment[CurrentUri].reachable
MayServe(segs) ==
    IF Open THEN TRUE
    ELSE environment[CurrentUri].reachable /\ environment[CurrentUri].segs = segs
MayFault(where) == IF Open THEN TRUE ELSE environment[CurrentUri].fault = where
MayPass(where) == IF Open THEN TRUE ELSE environment[CurrentUri].fault # where

(* Lines 92-103: build the filters and select the streams. *)
Load ==
    /\ pc = "start"
    /\ language_filters' = LanguageFilters(language_filter)
    /\ IF ~main_playlist_m3u8.loaded
       THEN /\ pc' = "raised"
            /\ e' = "PlaylistLoadError"
            /\ UNCHANGED <<playlist_filters, matched_media_items>>
       ELSE /\ playlist_filters' = PlaylistFilters(subtitles_filters, language_filters')
            /\ matched_media_items' =
                   get_media_playlists(main_playlist_m3u8, playlist_filters')
            /\ pc' = "loop"
            /\ e' = e
    /\ UNCHANGED <<args, lookup, idx, stage, metadata, locals, outputs>>

(* Except that swallows the exception and yields nothing. *)
ExceptSwallows(exc, name) ==
    /\ e' = exc
    /\ outputs' = outputs
    /\ stage' = "Failed"

(* Except that starts the stream over instead of yielding. *)
ExceptRetries(exc, name) ==
    /\ e' = exc
    /\ outputs' = outputs
    /\ stage' = "Fetching"

(* Except that yields a failure without the exception it caught. *)
ExceptLosesCause(exc, name) ==
    /\ e' = exc
    /\ outputs' = Append(outputs,
           SubtitlesDownloadError(language_code, name, special_type, "Exception"))
    /\ stage' = "Failed"

(* Lines 146-152: the handler yields a SubtitlesDownloadError. *)
(* name is the value language_name holds when the handler runs.            *)
Except(exc, name) ==
    /\ e' = exc
    /\ outputs' = Append(outputs,
           SubtitlesDownloadError(language_code, name, special_type, exc))
    /\ stage' = "Failed"

(* NextStream that derives the metadata for the first stream only. *)
NextStreamKeepsMetadata ==
    /\ pc = "loop"
    /\ stage \in {"Pending", "Done", "Failed"}
    /\ idx < Len(matched_media_items)
    /\ idx' = idx + 1
    /\ LET matched_media == matched_media_items[idx + 1] IN
       IF matched_media.name = NoName
       THEN /\ pc' = "raised"
            /\ e' = "AttributeError"
            /\ stage' = "Pending"
            /\ UNCHANGED metadata
       ELSE /\ IF idx = 0
               THEN /\ language_name' = LanguageName(matched_media.name)
                    /\ language_code' = matched_media.language
                    /\ special_type' = detect_subtitles_type(matched_media)
               ELSE UNCHANGED metadata
            /\ stage' = "Fetching"
            /\ UNCHANGED <<pc, e>>
    /\ UNCHANGED <<args, lookup, selection, locals, outputs>>

(* Lines 105-108: take the next matched stream and derive its metadata. *)
NextStream ==
    /\ pc = "loop"
    /\ stage \in {"Pending", "Done", "Failed"}
    /\ idx < Len(matched_media_items)
    /\ idx' = idx + 1
    /\ LET matched_media == matched_media_items[idx + 1] IN
       IF matched_media.name = NoName
       THEN /\ pc' = "raised"
            /\ e' = "AttributeError"
            /\ stage' = "Pending"
            /\ UNCHANGED metadata
       ELSE /\ language_name' = LanguageName(matched_media.name)
            /\ language_code' = matched_media.language
            /\ special_type' = detect_subtitles_type(matched_media)
            /\ stage' = "Fetching"
            /\ UNCHANGED <<pc, e>>
    /\ UNCHANGED <<args, lookup, selection, locals, outputs>>

(* Lines 111-114: fetch the media playlist and download its segments. *)
Fetch ==
    /\ pc = "loop"
    /\ stage = "Fetching"
    /\ \/ /\ MayRefuse
          /\ Except("ConnectionError", language_name)
          /\ UNCHANGED locals
       \/ \E segs \in SegmentLists :
            LET got == _download_segments(segs, track) IN
            /\ MayServe(segs)
            /\ m3u8_data' = matched_media_items[idx].absolute_uri
            /\ segments' = segs
            /\ IF got.exc # None
               THEN /\ Except(got.exc, language_name)
                    /\ UNCHANGED subtitles_segments
               ELSE /\ subtitles_segments' = got.data
                    /\ stage' = "Merging"
                    /\ UNCHANGED <<e, outputs>>
            /\ UNCHANGED <<subtitles, download>>
    /\ UNCHANGED <<args, lookup, selection, idx, pc, metadata>>

(***************************************************************************)
(* Lines 111-114 in steps, with _download_segments as the concurrent       *)
(* download it is: the media playlist is received, the segment fetches     *)
(* complete one by one in any order, each payload going to the slot of its *)
(* segment, and the call returns the slots or raises.                      *)
(***************************************************************************)
EmptySlot == [index |-> 0, text |-> "empty", cues |-> <<>>]

(* m3u8_data holds the media playlist of the stream the loop is at. *)
PlaylistReceived == idx >= 1 /\ m3u8_data = matched_media_items[idx].absolute_uri

(* Lines 111-112: the media playlist is fetched and parsed. *)
FetchPlaylist ==
    /\ pc = "loop"
    /\ stage = "Fetching"
    /\ ~PlaylistReceived
    /\ \/ /\ MayRefuse
          /\ Except("ConnectionError", language_name)
          /\ UNCHANGED locals
       \/ \E segs \in SegmentLists :
            /\ MayServe(segs)
            /\ m3u8_data' = matched_media_items[idx].absolute_uri
            /\ segments' = segs
            /\ slots' = [i \in DOMAIN segs |-> EmptySlot]
            /\ completed' = <<>>
            /\ UNCHANGED <<subtitles_segments, subtitles, stage, e, outputs>>
    /\ UNCHANGED <<args, lookup, selection, idx, pc, metadata>>

(* Line 114, inside _download_segments: one segment fetch completes. *)
SegmentFetched ==
    /\ pc = "loop"
    /\ stage = "Fetching"
    /\ PlaylistReceived
    /\ \E i \in DOMAIN segments :
         /\ slots[i] = EmptySlot
         /\ segments[i] # "unfetchable"
         /\ slots' = [slots EXCEPT ![i] = Payload(segments, track, i)]
         /\ completed' = Append(completed, i)
    /\ UNCHANGED <<args, lookup, selection, idx, pc, stage, metadata, m3u8_data, segments,
                   subtitles_segments, subtitles, e, outputs>>

(* Gather that returns the payloads in the order their fetches completed. *)
GatherInCompletionOrder ==
    /\ pc = "loop"
    /\ stage = "Fetching"
    /\ PlaylistReceived
    /\ IF segments = <<>>
       THEN /\ Except("PlaylistLoadError", language_name)
            /\ UNCHANGED subtitles_segments
       ELSE IF \E i \in DOMAIN segments : segments[i] = "unfetchable"
       THEN /\ Except("SegmentFetchError", language_name)
            /\ UNCHANGED subtitles_segments
       ELSE /\ Len(completed) = Len(segments)
            /\ subtitles_segments' = [k \in DOMAIN completed |-> slots[completed[k]]]
            /\ stage' = "Merging"
            /\ UNCHANGED <<e, outputs>>
    /\ UNCHANGED <<args, lookup, selection, idx, pc, metadata, m3u8_data, segments,
                   subtitles, download>>

(* Line 114: _download_segments returns the slots, or raises. *)
Gather ==
    /\ pc = "loop"
    /\ stage = "Fetching"
    /\ PlaylistReceived
    /\ IF segments = <<>>
       THEN /\ Except("PlaylistLoadError", language_name)
            /\ UNCHANGED subtitles_segments
       ELSE IF \E i \in DOMAIN segments : segments[i] = "unfetchable"
       THEN /\ Except("SegmentFetchError", language_name)
            /\ UNCHANGED subtitles_segments
       ELSE /\ Len(completed) = Len(segments)
            /\ subtitles_segments' = slots
            /\ stage' = "Merging"
            /\ UNCHANGED <<e, outputs>>
    /\ UNCHANGED <<args, lookup, selection, idx, pc, metadata, m3u8_data, segments,
                   subtitles, download>>

(* Lines 115-120: parse the first payload, append the others. *)
Merge ==
    /\ pc = "loop"
    /\ stage = "Merging"
    /\ LET k == FirstUnparsed(subtitles_segments) IN
       /\ IF k = 1
          THEN UNCHANGED subtitles
          ELSE subtitles' =
                   AppendSegments(
                       WebVTTSubtitles(subtitles_segments[1], language_code),
                       subtitles_segments, 2, k - 1)
       /\ IF k <= Len(subtitles_segments)
          THEN Except("CueParseError", language_name)
          ELSE /\ stage' = "Polishing"
               /\ UNCHANGED <<e, outputs>>
    /\ UNCHANGED <<args, lookup, selection, idx, pc, metadata, m3u8_data, segments,
                   subtitles_segments, download>>

(* Lines 122-125: polish the merged track. *)
Polish ==
    /\ pc = "loop"
    /\ stage = "Polishing"
    /\ \/ /\ MayFault("polish")
          /\ Except("PolishError", language_name)
          /\ UNCHANGED subtitles
       \/ /\ MayPass("polish")
          /\ subtitles' = polish(subtitles, subtitles_remove_duplicates)
          /\ stage' = "Converting"
          /\ UNCHANGED <<e, outputs>>
    /\ UNCHANGED <<args, lookup, selection, idx, pc, metadata, m3u8_data, segments,
                   subtitles_segments, download>>

(* Convert that tags the output SUBRIP but dumps the WebVTT document. *)
ConvertTagsOnly ==
    /\ pc = "loop"
    /\ stage = "Converting"
    /\ LET matched_media == matched_media_items[idx]
           name == LanguageName(matched_media.name)
       IN
       /\ language_name' = name
       /\ outputs' = Append(outputs,
              SubtitlesData(language_code, name,
                            IF subrip_conversion THEN "SUBRIP" ELSE "WEBVTT",
                            dump(subtitles), special_type))
       /\ stage' = "Done"
       /\ e' = e
    /\ UNCHANGED <<args, lookup, selection, idx, pc, language_code, special_type, locals>>

(* Lines 127-144: render the track and yield a SubtitlesData. *)
Convert ==
    /\ pc = "loop"
    /\ stage = "Converting"
    /\ LET matched_media == matched_media_items[idx]
           name == LanguageName(matched_media.name)
       IN
       /\ language_name' = name
       /\ \/ /\ subrip_conversion
             /\ MayFault("to_srt")
             /\ Except("ConversionError", name)
          \/ /\ IF subrip_conversion THEN MayPass("to_srt") ELSE TRUE
             /\ outputs' = Append(outputs,
                    IF subrip_conversion
                    THEN SubtitlesData(language_code, name, "SUBRIP",
                                       dump_srt(to_srt(subtitles)), special_type)
                    ELSE SubtitlesData(language_code, name, "WEBVTT",
                                       dump(subtitles), special_type))
             /\ stage' = "Done"
             /\ e' = e
    /\ UNCHANGED <<args, lookup, selection, idx, pc, language_code, special_type, locals>>

(* Finish that also ends the loop at the first failed stream. *)
FinishOnFailure ==
    /\ pc = "loop"
    /\ stage \in {"Pending", "Done", "Failed"}
    /\ idx = Len(matched_media_items) \/ stage = "Failed"
    /\ pc' = "done"
    /\ UNCHANGED <<args, lookup, selection, idx, stage, metadata, locals, e, outputs>>

(* The for loop has no stream left: the generator is exhausted. *)
Finish ==
    /\ pc = "loop"
    /\ stage \in {"Pending", "Done", "Failed"}
    /\ idx = Len(matched_media_items)
    /\ pc' = "done"
    /\ UNCHANGED <<args, lookup, selection, idx, stage, metadata, locals, e, outputs>>

Next == Load \/ NextStream \/ Fetch \/ Merge \/ Polish \/ Convert \/ Finish

Spec == Init /\ [][Next]_vars

(***************************************************************************)
(* One stream's pipeline at the level of cues: a specification whose       *)
(* initial states draw the track and the remove-duplicates option, and in  *)
(* which the download runs in steps.                                       *)
(***************************************************************************)
InitSegments ==
    /\ main_playlist_m3u8 \in {Loaded(<<Catalogue[1]>>), Loaded(<<Catalogue[2]>>)}
    /\ language_filter = NoLanguageFilter
    /\ subrip_conversion \in BOOLEAN
    /\ subtitles_filters = ItunesSubtitlesFilters
    /\ subtitles_remove_duplicates \in BOOLEAN
    /\ track \in Tracks
    /\ environment = Anything
    /\ Fresh
    /\ NoLookup

NextSegments ==
    \/ Load \/ NextStream \/ FetchPlaylist \/ SegmentFetched \/ Gather
    \/ Merge \/ Polish \/ Convert \/ Finish

SpecSegments == InitSegments /\ [][NextSegments]_vars

(***************************************************************************)
(* Two streams whose environment is fixed beforehand, in either order: a   *)
(* specification in which what happens to a stream is a function of its    *)
(* URI, so that the outputs of the loop can be compared with each stream's *)
(* pipeline taken alone.                                                   *)
(***************************************************************************)
InitStreams ==
    /\ main_playlist_m3u8 \in {Loaded(<<Catalogue[1], Catalogue[2]>>),
                                Loaded(<<Catalogue[2], Catalogue[1]>>)}
    /\ language_filter = NoLanguageFilter
    /\ subrip_conversion \in BOOLEAN
    /\ subtitles_filters = ItunesSubtitlesFilters
    /\ subtitles_remove_duplicates = TRUE
    /\ track = OneCuePerSegment
    /\ environment \in [{Catalogue[1].absolute_uri, Catalogue[2].absolute_uri} -> Behaviours]
    /\ Fresh
    /\ NoLookup

SpecStreams == InitStreams /\ [][Next]_vars

(***************************************************************************)
(* get_data, lines 43-88: resolve an iTunes URL to the Apple TV page it    *)
(* redirects to and hand over to the Apple TV scraper.                     *)
(***************************************************************************)
ItunesUrl == "https://itunes.apple.com/us/movie/name/id123456789"
Urls == {ItunesUrl, "https://itunes.apple.com/us/movie/name/id123456789?uo=4",
         "https://example.com/us/movie/name/id123456789"}

AppleTvUrl == "https://tv.apple.com/us/movie/name/umc.cmc.1"
Locations == {None, "", AppleTvUrl, "https://example.com/moved"}
StatusCodes == {200, 301, 302, 400, 404, 500, 503}

(* Line 24 and lines 59-60: group(1) of url_regex, the URL without its     *)
(* parameters, or None when the URL does not match.                        *)
match_url(u) ==
    CASE u = ItunesUrl -> ItunesUrl
      [] u = "https://itunes.apple.com/us/movie/name/id123456789?uo=4" -> ItunesUrl
      [] OTHER -> None

(* self._appletv_scraper.match_url(redirect_location), line 84. *)
appletv_match_url(location) == location = AppleTvUrl

(* Session.get: with allow_redirects a 3xx answer that has a Location is   *)
(* followed and the answer of the target is returned.                      *)
session_get(answer, allow_redirects) ==
    IF /\ allow_redirects
       /\ answer.status_code \in {301, 302}
       /\ answer.Location \notin {None, ""}
    THEN Response(200, None, TRUE)
    ELSE answer

(* raise_for_status: HTTPError for a 4xx or 5xx status. *)
raise_for_status(r) == r.status_code >= 400 /\ r.status_code < 600

InitGetData ==
    /\ main_playlist_m3u8 = NotLoaded
    /\ language_filter = NoLanguageFilter
    /\ subrip_conversion = FALSE
    /\ subtitles_filters = ItunesSubtitlesFilters
    /\ subtitles_remove_duplicates = TRUE
    /\ track = OneCuePerSegment
    /\ environment = Anything
    /\ Fresh
    /\ url \in Urls
    /\ site \in { Response(c, l, FALSE) : c \in StatusCodes, l \in Locations }
    /\ get_data_pc = "match"
    /\ regex_match = None
    /\ request = NoRequest
    /\ response = NoResponse
    /\ redirect_location = None
    /\ raised = NoException
    /\ appletv_calls = <<>>

subtitles_state == <<args, selection, idx, pc, stage, metadata, locals, e, outputs>>

(* raise: the exception leaves get_data. *)
Raise(type, message, cause) ==
    /\ raised' = Exception(type, message, cause)
    /\ get_data_pc' = "raised"

(* Lines 59-60: match the URL, raising when it is not an iTunes URL. *)
MatchUrl ==
    /\ get_data_pc = "match"
    /\ regex_match' = match_url(url)
    /\ IF match_url(url) = None
       THEN Raise("InvalidURL", "not an iTunes URL", None)
       ELSE /\ get_data_pc' = "request"
            /\ UNCHANGED raised
    /\ UNCHANGED <<url, site, request, response, redirect_location, appletv_calls,
                   subtitles_state>>

(* Request that lets the session follow redirects. *)
RequestFollowingRedirects ==
    /\ get_data_pc = "request"
    /\ request' = [url |-> regex_match, allow_redirects |-> TRUE]
    /\ response' = session_get(site, TRUE)
    /\ get_data_pc' = "status"
    /\ UNCHANGED <<url, site, regex_match, redirect_location, raised, appletv_calls,
                   subtitles_state>>

(* Line 62: self._session.get(url=url, allow_redirects=False). *)
Request ==
    /\ get_data_pc = "request"
    /\ request' = [url |-> regex_match, allow_redirects |-> FALSE]
    /\ response' = session_get(site, FALSE)
    /\ get_data_pc' = "status"
    /\ UNCHANGED <<url, site, regex_match, redirect_location, raised, appletv_calls,
                   subtitles_state>>

(* Lines 64-73: raise_for_status; a 404 becomes a ScraperError, any other  *)
(* HTTPError is raised again.                                              *)
CheckStatus ==
    /\ get_data_pc = "status"
    /\ IF raise_for_status(response)
       THEN IF response.status_code = 404
            THEN Raise("ScraperError", "Media not found", "HTTPError")
            ELSE Raise("HTTPError", None, None)
       ELSE /\ get_data_pc' = "redirect"
            /\ UNCHANGED raised
    /\ UNCHANGED <<url, site, regex_match, request, response, redirect_location,
                   appletv_calls, subtitles_state>>

(* Lines 75-82: the Location header; not a 301, or no location, raises. *)
ReadLocation ==
    /\ get_data_pc = "redirect"
    /\ redirect_location' = response.Location
    /\ IF response.status_code # 301 \/ response.Location \in {None, ""}
       THEN Raise("ScraperError", "Apple TV redirect URL not found", None)
       ELSE /\ get_data_pc' = "appletv"
            /\ UNCHANGED raised
    /\ UNCHANGED <<url, site, regex_match, request, response, appletv_calls,
                   subtitles_state>>

(* Lines 84-88: a location that is not an Apple TV URL raises; otherwise   *)
(* the Apple TV scraper's get_data is called with it.                      *)
HandOff ==
    /\ get_data_pc = "appletv"
    /\ IF ~appletv_match_url(redirect_location)
       THEN /\ Raise("ScraperError", "Redirect URL is not a valid Apple TV URL", None)
            /\ UNCHANGED appletv_calls
       ELSE /\ appletv_calls' = Append(appletv_calls, redirect_location)
            /\ get_data_pc' = "returned"
            /\ UNCHANGED raised
    /\ UNCHANGED <<url, site, regex_match, request, response, redirect_location,
                   subtitles_state>>

NextGetData == MatchUrl \/ Request \/ CheckStatus \/ ReadLocation \/ HandOff

SpecGetData == InitGetData /\ [][NextGetData]_vars

(***************************************************************************)
(* The filter construction of lines 92-103 on its own, for every base      *)
(* rule set: a specification whose initial states draw the base filters    *)
(* from RuleSets and whose only step is Load.                              *)
(***************************************************************************)
RuleSets ==
    { [k \in ks |-> CASE k = TYPE -> {"SUBTITLES"}
                      [] k = GROUP_ID -> g
                      [] k = LANGUAGE -> l] :
        ks \in SUBSET {TYPE, GROUP_ID, LANGUAGE},
        g \in {{"subtitles_ak"}, {"subtitles_ak", "subtitles_vod-ak-amt.tv.apple.com"}},
        l \in {{"en"}, {"fr"}} }

InitFilter ==
    /\ main_playlist_m3u8 \in {NotLoaded} \cup {Loaded(p) : p \in Playlists}
    /\ language_filter \in LanguageFilterArgs
    /\ subrip_conversion = FALSE
    /\ subtitles_filters \in RuleSets
    /\ subtitles_remove_duplicates = TRUE
    /\ track = OneCuePerSegment
    /\ environment = Anything
    /\ Fresh
    /\ NoLookup

SpecFilter == InitFilter /\ [][Load]_vars

(***************************************************************************)
(* Definitions used to state the properties.                               *)
(***************************************************************************)
InPipeline == stage \in {"Fetching", "Merging", "Polishing", "Converting"}
IsData(o) == o.kind = "SubtitlesData"
IsError(o) == o.kind = "SubtitlesDownloadError"
MasterMedia == main_playlist_m3u8.media
FilterGiven == language_filter.given /\ language_filter.langs # {}

(* The media playlist of the stream the loop is at has been received. *)
Fetched == idx >= 1 /\ m3u8_data = matched_media_items[idx].absolute_uri

(* The display names of the catalogue's named entries, written out. *)
DisplayName(uri) ==
    CASE uri = "u1" -> <<"E", "n">>
      [] uri = "u2" -> <<"F", "r">>
      [] uri = "u3" -> <<"C", "c">>
      [] uri = "u4" -> <<"E", "n">>
      [] OTHER -> NoName

(* The special type of the catalogue's entries, written out. *)
SpecialType(uri) ==
    CASE uri = "u2" -> "FORCED"
      [] uri = "u3" -> "CC"
      [] OTHER -> None

(* Output o identifies stream m. *)
OutputIsFor(o, m) ==
    /\ o.language_code = m.language
    /\ o.language_name = DisplayName(m.absolute_uri)
    /\ o.special_type = SpecialType(m.absolute_uri)

(* C1: once the generator is exhausted, the outputs are one per matched    *)
(* stream, in order, each a SubtitlesData or a SubtitlesDownloadError for  *)
(* that stream; the matched streams are exactly the playlist entries that  *)
(* pass the filters, so no other stream has an output.  While the loop     *)
(* runs, every stream it has finished has its one output.                  *)
ExactlyOneOutputPerMatch ==
    /\ pc = "loop" => Len(outputs) = IF InPipeline THEN idx - 1 ELSE idx
    /\ pc = "done" =>
         /\ Len(outputs) = Len(matched_media_items)
         /\ Len(outputs) =
              Cardinality({i \in DOMAIN MasterMedia :
                              Matches(MasterMedia[i], playlist_filters)})
         /\ \A k \in DOMAIN outputs :
              /\ IsData(outputs[k]) # IsError(outputs[k])
              /\ OutputIsFor(outputs[k], matched_media_items[k])

(* C1 witness: exhausted with a success and a failure. *)
OneOutputEachReached ==
    /\ pc = "done"
    /\ Len(outputs) = 2
    /\ IsData(outputs[1])
    /\ IsError(outputs[2])

(* C2: a stream's failure is one appended SubtitlesDownloadError: it       *)
(* leaves the earlier outputs, the list of matched streams and the loop    *)
(* position as they are and the generator running; the next stream starts  *)
(* from its own playlist entry whether the previous one failed or not; and *)
(* at exhaustion there are as many outputs as matched streams, the k-th    *)
(* for the k-th stream.                                                    *)
FailureStep ==
    stage' = "Failed" /\ stage # "Failed" =>
        /\ pc' = "loop"
        /\ idx' = idx
        /\ matched_media_items' = matched_media_items
        /\ outputs' = Append(outputs,
              SubtitlesDownloadError(
                  matched_media_items[idx].language,
                  DisplayName(matched_media_items[idx].absolute_uri),
                  SpecialType(matched_media_items[idx].absolute_uri), e'))

AfterFailureStep ==
    stage = "Failed" /\ idx' # idx =>
        /\ idx' = idx + 1
        /\ outputs' = outputs
        /\ pc' = "loop" =>
             /\ stage' = "Fetching"
             /\ language_code' = matched_media_items[idx'].language
             /\ language_name' = DisplayName(matched_media_items[idx'].absolute_uri)
             /\ special_type' = SpecialType(matched_media_items[idx'].absolute_uri)

(* C2: failure isolation, as the invariant at exhaustion and the two step  *)
(* properties above.                                                       *)
FailureIsolation ==
    /\ [](pc = "done" =>
            /\ Len(outputs) = Len(matched_media_items)
            /\ \A k \in DOMAIN outputs : OutputIsFor(outputs[k], matched_media_items[k]))
    /\ [][FailureStep /\ AfterFailureStep]_vars

(* C2 witness: the first stream's media playlist fetch failed, the second  *)
(* stream produced its SubtitlesData.                                      *)
IsolatedFailureReached ==
    /\ pc = "done"
    /\ Len(outputs) = 2
    /\ IsError(outputs[1])
    /\ outputs[1].original_exc = "ConnectionError"
    /\ IsData(outputs[2])

(* C3 as stated: a stream that passes the base filters alone or the        *)
(* language filters alone passes their merge.                              *)
MonotonicBroadening ==
    pc = "loop" /\ FilterGiven =>
        \A i \in DOMAIN MasterMedia :
            Matches(MasterMedia[i], subtitles_filters)
              \/ Matches(MasterMedia[i], language_filters)
            => Matches(MasterMedia[i], playlist_filters)

(* Stream m has an allowed value for every key that only `other` has. *)
AllowedOnKeysOnlyIn(m, other, mine) ==
    \A k \in DOMAIN other \ DOMAIN mine :
        Attr(m, k) # None /\ Attr(m, k) \in other[k]

(* C3 amended: a stream that passes one of the two rule sets, and whose    *)
(* values are allowed for the keys only the other rule set constrains,     *)
(* passes the merge; for rule sets over the same keys that is every stream *)
(* passing either one.                                                     *)
BroadeningOnSharedKeys ==
    pc = "loop" /\ FilterGiven =>
        \A i \in DOMAIN MasterMedia :
            \/ /\ Matches(MasterMedia[i], subtitles_filters)
               /\ AllowedOnKeysOnlyIn(MasterMedia[i], language_filters, subtitles_filters)
            \/ /\ Matches(MasterMedia[i], language_filters)
               /\ AllowedOnKeysOnlyIn(MasterMedia[i], subtitles_filters, language_filters)
            => Matches(MasterMedia[i], playlist_filters)

(* C3 witness: base and language filters both constrain the language, and  *)
(* a stream the base alone admits (fr, not in the language filter) passes  *)
(* the merge.                                                              *)
BroadeningReached ==
    /\ pc = "loop"
    /\ FilterGiven
    /\ LANGUAGE \in DOMAIN subtitles_filters
    /\ \E i \in DOMAIN MasterMedia :
         /\ Matches(MasterMedia[i], subtitles_filters)
         /\ ~Matches(MasterMedia[i], language_filters)
         /\ Matches(MasterMedia[i], playlist_filters)

(* C4: with a language filter, the filters used are the base filters with  *)
(* the language key's allowed set replaced by the union of the base's      *)
(* language values (if any) and the language filter, the other keys as in  *)
(* the base; with None or an empty filter they are the base filters; and   *)
(* no step changes the scraper's base filters.                             *)
FiltersUsed ==
    pc = "loop" =>
        IF FilterGiven
        THEN /\ DOMAIN playlist_filters = DOMAIN subtitles_filters \cup {LANGUAGE}
             /\ playlist_filters[LANGUAGE] =
                  language_filter.langs \cup
                  (IF LANGUAGE \in DOMAIN subtitles_filters
                   THEN subtitles_filters[LANGUAGE] ELSE {})
             /\ \A k \in DOMAIN subtitles_filters \ {LANGUAGE} :
                  playlist_filters[k] = subtitles_filters[k]
        ELSE playlist_filters = subtitles_filters

(* C4: the filters used are always FiltersUsed, and the base filters never *)
(* change.                                                                 *)
LanguageMergedIntoBase ==
    /\ []FiltersUsed
    /\ [][subtitles_filters' = subtitles_filters]_vars

(* C4 witness: the base has its own language values, and the filters used  *)
(* have both these and the language filter's.                              *)
LanguageUnionReached ==
    /\ pc = "loop"
    /\ FilterGiven
    /\ LANGUAGE \in DOMAIN subtitles_filters
    /\ GROUP_ID \in DOMAIN subtitles_filters
    /\ playlist_filters[LANGUAGE] # language_filter.langs
    /\ playlist_filters[LANGUAGE] # subtitles_filters[LANGUAGE]

(* C5: with a language filter L every output is for a language in L, and   *)
(* at exhaustion there are no more outputs than playlist entries with a    *)
(* language in L; with conversion requested every SubtitlesData is SubRip; *)
(* for the playlist (en, fr) and L = [en] there is exactly one output, for *)
(* the en stream.                                                          *)
LanguageSelection ==
    /\ FilterGiven =>
         /\ \A k \in DOMAIN outputs : outputs[k].language_code \in language_filter.langs
         /\ Len(outputs) <=
              Cardinality({i \in DOMAIN MasterMedia :
                              MasterMedia[i].language \in language_filter.langs})
    /\ subrip_conversion =>
         \A k \in DOMAIN outputs :
             IsData(outputs[k]) =>
                 /\ outputs[k].subtitles_format = "SUBRIP"
                 /\ outputs[k].content.syntax = "SubRip"
    /\ ( /\ pc = "done"
         /\ MasterMedia = <<Catalogue[1], Catalogue[2]>>
         /\ language_filter = Languages({"en"}) )
       => /\ Len(outputs) = 1
          /\ OutputIsFor(outputs[1], Catalogue[1])

(* C5 witness: the (en, fr) playlist with filter [en] and conversion ends  *)
(* with the one SubRip output.                                             *)
EnglishOnlyReached ==
    /\ pc = "done"
    /\ MasterMedia = <<Catalogue[1], Catalogue[2]>>
    /\ language_filter = Languages({"en"})
    /\ subrip_conversion
    /\ Len(outputs) = 1
    /\ IsData(outputs[1])
    /\ outputs[1].subtitles_format = "SUBRIP"

(* C6: within one stream the stage only moves Fetching -> Merging ->       *)
(* Polishing -> Converting -> Done, or from one of the four stages to      *)
(* Failed; Done and Failed are left only by taking the next stream, which  *)
(* starts at Fetching (or stays Pending when taking it raises).            *)
StageSuccessor ==
    [s \in {"Fetching", "Merging", "Polishing", "Converting"} |->
        CASE s = "Fetching" -> "Merging"
          [] s = "Merging" -> "Polishing"
          [] s = "Polishing" -> "Converting"
          [] s = "Converting" -> "Done"]

StageStep ==
    IF idx' = idx
    THEN stage' # stage =>
            /\ stage \in DOMAIN StageSuccessor
            /\ stage' \in {StageSuccessor[stage], "Failed"}
    ELSE /\ idx' = idx + 1
         /\ stage \in {"Pending", "Done", "Failed"}
         /\ stage' \in {"Fetching", "Pending"}

(* C6: every step moves the stage as StageStep allows. *)
StagesInOrder == [][StageStep]_vars

(* C6 witness: a stream is Done after an earlier stream failed in Polish.  *)
DoneAfterAllStagesReached ==
    /\ stage = "Done"
    /\ idx = 2
    /\ outputs[1].kind = "SubtitlesDownloadError"
    /\ outputs[1].original_exc = "PolishError"
    /\ subtitles.polished
    /\ subtitles.cues = <<1, 2>>

(* C7: a stream past the download has every segment fetched, a stream past *)
(* the merge has every payload parsed and merged; the output of a Done     *)
(* stream is a SubtitlesData whose cues are those of all its segments, in  *)
(* order; the output of a Failed stream is a SubtitlesDownloadError, also  *)
(* when a part of the segments was merged before the failure.              *)
NoPartialResult ==
    /\ pc = "loop" /\ stage \in {"Merging", "Polishing", "Converting", "Done"} =>
         /\ Fetched
         /\ segments # <<>>
         /\ \A i \in DOMAIN segments : segments[i] # "unfetchable"
         /\ Len(subtitles_segments) = Len(segments)
    /\ pc = "loop" /\ stage \in {"Polishing", "Converting", "Done"} =>
         /\ \A i \in DOMAIN segments : segments[i] = "ok"
         /\ subtitles.cues = [i \in 1..Len(segments) |-> i]
    /\ pc = "loop" /\ stage = "Done" =>
         /\ IsData(outputs[idx])
         /\ outputs[idx].content.cues = [i \in 1..Len(segments) |-> i]
    /\ pc = "loop" /\ stage = "Failed" => IsError(outputs[idx])
    /\ pc = "loop" /\ stage \in {"Done", "Failed"} /\ Fetched
         /\ (\E i \in DOMAIN segments : segments[i] # "ok")
         => IsError(outputs[idx])

(* C7 witness: the second payload did not parse; the first is merged in    *)
(* the local document, and the stream's output is the failure.             *)
PartialMergeFailedReached ==
    /\ pc = "loop"
    /\ stage = "Failed"
    /\ Fetched
    /\ segments = <<"ok", "garbled">>
    /\ subtitles.cues = <<1>>
    /\ IsError(outputs[idx])
    /\ outputs[idx].original_exc = "CueParseError"

OnlyBatchLevelErrorsEscape ==
    pc = "raised" =>
        /\ e = "PlaylistLoadError"
        /\ idx = 0
        /\ outputs = <<>>

(* C10: every output, failure or success, carries the language code, the   *)
(* display name and the special type of its stream, and a failure carries  *)
(* the exception that was raised.                                          *)
FailureCarriesMetadata ==
    /\ \A k \in DOMAIN outputs : OutputIsFor(outputs[k], matched_media_items[k])
    /\ pc = "loop" /\ stage = "Failed" =>
         /\ e # None
         /\ outputs[idx] =
              SubtitlesDownloadError(
                  matched_media_items[idx].language,
                  DisplayName(matched_media_items[idx].absolute_uri),
                  SpecialType(matched_media_items[idx].absolute_uri), e)

(* C10 witness: the forced fr stream failed in convert after the CC stream *)
(* failed in polish; both failures name their stream.                      *)
FailuresNameTheirStreamReached ==
    /\ Len(outputs) = 2
    /\ outputs[1] = SubtitlesDownloadError(None, <<"C", "c">>, "CC", "PolishError")
    /\ outputs[2] = SubtitlesDownloadError("fr", <<"F", "r">>, "FORCED", "ConversionError")

(***************************************************************************)
(* Properties of the merged track.                                         *)
(***************************************************************************)
Merged == stage \in {"Polishing", "Converting", "Done"}
Count(cues, x) == Cardinality({i \in DOMAIN cues : cues[i] = x})
LastCue(cues) == cues[Len(cues)]

(* Segments n and n+1 of the stream's playlist share the boundary cue x. *)
BoundaryCue(n, x) ==
    /\ n \in 1..(Len(segments) - 1)
    /\ LastCue(track[n]) = x
    /\ track[n + 1][1] = x

(* C11: when segment n ends with the cue segment n+1 starts with, the      *)
(* merged document of a stream that got through the merge, and the content *)
(* of its SubtitlesData, have that cue once, with remove-duplicates on or   *)
(* off.                                                                    *)
BoundaryDuplicateMergedOnce ==
    \A n \in 1..MaxSegs : \A x \in 1..MaxCue :
        Merged /\ BoundaryCue(n, x) =>
            /\ Count(subtitles.cues, x) = 1
            /\ stage = "Done" => Count(outputs[idx].content.cues, x) = 1

(* C11 witness: remove-duplicates is off, the two segments share their     *)
(* boundary cue and the stream is Done.                                    *)
BoundaryDuplicateReached ==
    /\ stage = "Done"
    /\ ~subtitles_remove_duplicates
    /\ Len(segments) = 2
    /\ BoundaryCue(1, 2)
    /\ Len(track[1]) = 2
    /\ IsData(outputs[idx])
    /\ Count(outputs[idx].content.cues, 2) = 1

(* C12: whatever order the segment fetches complete in, the payloads the   *)
(* merge gets are those of segments 1..N in that order, and the merged     *)
(* document has the cues of the track from the first cue of segment 1 to   *)
(* the last cue of segment N, in the order of the segments.                *)
SegmentOrderPreserved ==
    /\ stage \in {"Merging", "Polishing", "Converting", "Done"} =>
         /\ Len(subtitles_segments) = Len(segments)
         /\ \A i \in DOMAIN segments :
              /\ subtitles_segments[i].index = i
              /\ subtitles_segments[i].cues = track[i]
    /\ Merged =>
         subtitles.cues = Run(track[1][1], LastCue(track[Len(segments)]))

(* C12 witness: the second segment's fetch completed before the first's,   *)
(* and the stream is Done with its cues in order.                          *)
OutOfOrderCompletionReached ==
    /\ stage = "Done"
    /\ completed = <<2, 1>>
    /\ track = <<Run(1, 1), Run(2, 3)>>
    /\ IsData(outputs[idx])
    /\ outputs[idx].content.cues = <<1, 2, 3>>

(* C13: the header of the merged document is the header block of the first *)
(* segment and nothing else, and a WebVTT SubtitlesData renders that       *)
(* header.                                                                 *)
HeaderOfFirstSegmentOnly ==
    /\ Merged => subtitles.head = <<1>>
    /\ stage = "Done" /\ ~subrip_conversion => outputs[idx].content.head = <<1>>

(* C13 witness: a stream of two segments is Done with a WebVTT output. *)
HeaderOfFirstSegmentReached ==
    /\ stage = "Done"
    /\ Len(segments) = 2
    /\ ~subrip_conversion
    /\ IsData(outputs[idx])
    /\ outputs[idx].content.head = <<1>>

(* The output of stream m's pipeline taken alone, on locals of its own,    *)
(* when the collaborators behave as r.                                     *)
PipelineAlone(m, r) ==
    LET code == m.language
        name == LanguageName(m.name)
        special == detect_subtitles_type(m)
        got == _download_segments(r.segs, track)
        doc == polish(AppendSegments(WebVTTSubtitles(got.data[1], code),
                                     got.data, 2, Len(got.data)),
                      subtitles_remove_duplicates)
    IN  IF ~r.reachable
        THEN SubtitlesDownloadError(code, name, special, "ConnectionError")
        ELSE IF got.exc # None
        THEN SubtitlesDownloadError(code, name, special, got.exc)
        ELSE IF FirstUnparsed(got.data) <= Len(got.data)
        THEN SubtitlesDownloadError(code, name, special, "CueParseError")
        ELSE IF r.fault = "polish"
        THEN SubtitlesDownloadError(code, name, special, "PolishError")
        ELSE IF subrip_conversion /\ r.fault = "to_srt"
        THEN SubtitlesDownloadError(code, name, special, "ConversionError")
        ELSE IF subrip_conversion
        THEN SubtitlesData(code, name, "SUBRIP", dump_srt(to_srt(doc)), special)
        ELSE SubtitlesData(code, name, "WEBVTT", dump(doc), special)

FormatAgreesWithContent ==
    \A k \in DOMAIN outputs :
        IsData(outputs[k]) =>
            /\ outputs[k].subtitles_format = "SUBRIP" <=> subrip_conversion
            /\ outputs[k].subtitles_format = "WEBVTT" <=> ~subrip_conversion
            /\ outputs[k].subtitles_format = "SUBRIP" <=>
                   outputs[k].content.syntax = "SubRip"
            /\ outputs[k].subtitles_format = "WEBVTT" <=>
                   outputs[k].content.syntax = "WebVTT"
            /\ outputs[k].content.polished

(* C15 witness: a converted output and, in another run, a native one; this *)
(* is the converted one after a native stream could not occur in the same  *)
(* call: two SubRip outputs of one call.                                   *)
ConvertedOutputsReached ==
    /\ subrip_conversion
    /\ Len(outputs) = 2
    /\ IsData(outputs[1])
    /\ IsData(outputs[2])
    /\ outputs[2].subtitles_format = "SUBRIP"
    /\ outputs[2].content.syntax = "SubRip"
    /\ outputs[2].content.polished

(* What get_data must end with for a URL that matched, by iTunes' answer.  *)
ErrorStatus(code) == code >= 400
Expected(answer) ==
    IF answer.status_code = 404
    THEN Exception("ScraperError", "Media not found", "HTTPError")
    ELSE IF ErrorStatus(answer.status_code)
    THEN Exception("HTTPError", None, None)
    ELSE IF answer.status_code # 301 \/ answer.Location \in {None, ""}
    THEN Exception("ScraperError", "Apple TV redirect URL not found", None)
    ELSE IF answer.Location # AppleTvUrl
    THEN Exception("ScraperError", "Redirect URL is not a valid Apple TV URL", None)
    ELSE NoException

====
